---- MODULE Spec2Model ----
(***************************************************************************)
(* LocaleRouteNormalizer                                                   *)
(* (packages/next/src/server/future/normalizers/locale-route-normalizer.ts)*)
(*                                                                         *)
(* A string is a sequence of one-character strings, so that toLowerCase,   *)
(* split, slice and indexOf are computed character by character.  An       *)
(* optional value (T | undefined) is a sequence of length at most one:     *)
(* Undefined is << >> and Some(x) is <<x>>.                                *)
(*                                                                         *)
(* The instance is immutable after construction; a caller invokes one of   *)
(* its public methods, takes the returned value, and may invoke again.     *)
(***************************************************************************)
EXTENDS Naturals, Integers, Sequences, FiniteSets, TLC

VARIABLES config, lowerCaseLocales, lowerCaseDomains, op, args, returned

vars == <<config, lowerCaseLocales, lowerCaseDomains, op, args, returned>>

\* ---------------------------------------------------------------- bounds
MaxPathLen == 4
MaxLocales == 2
MaxDomains == 2

\* ------------------------------------------------------- optional values
Undefined == << >>
Some(x) == <<x>>

BoundedSeq(S, n) == UNION {[1..k -> S] : k \in 0..n}

\* ------------------------------------------------------ string primitives
\* String.prototype.toLowerCase on one character of the alphabet in use.
LowerChar(c) ==
  CASE c = "A" -> "a"
    [] c = "H" -> "h"
    [] OTHER -> c

toLowerCase_identity(s) == s

toLowerCase(s) == [i \in 1..Len(s) |-> LowerChar(s[i])]

\* String.prototype.split(sep) for a one-character separator.
RECURSIVE split(_, _)
split(s, sep) ==
  IF \A i \in 1..Len(s) : s[i] # sep
    THEN <<s>>
    ELSE LET k == CHOOSE i \in 1..Len(s) :
                    s[i] = sep /\ \A j \in 1..(i - 1) : s[j] # sep
         IN  <<SubSeq(s, 1, k - 1)>> \o split(SubSeq(s, k + 1, Len(s)), sep)

\* Array.prototype.indexOf: the first zero-based index of x, or -1.
indexOf(arr, x) ==
  IF \E i \in 1..Len(arr) : arr[i] = x
    THEN (CHOOSE i \in 1..Len(arr) :
            arr[i] = x /\ \A j \in 1..(i - 1) : arr[j] # x) - 1
    ELSE -1

\* String.prototype.slice(start) for start >= 0.
slice(s, start) == SubSeq(s, start + 1, Len(s))

\* arr[i] with a zero-based index; undefined when out of range.
At(arr, i) == IF (i + 1) \in 1..Len(arr) THEN Some(arr[i + 1]) ELSE Undefined

\* !x for x : string | undefined.
Falsy(x) == x = Undefined \/ x = Some(<< >>)

\* ------------------------------------------------------------ constructor
constructLowerCaseLocales(cfg) ==
  [i \in 1..Len(cfg.locales) |-> toLowerCase(cfg.locales[i])]

constructLowerCaseDomains(cfg) ==
  IF cfg.domains = Undefined
    THEN Undefined
    ELSE Some([i \in 1..Len(cfg.domains[1]) |->
           LET domainLocale == cfg.domains[1][i]
               domain == toLowerCase(domainLocale.domain)
           IN  [defaultLocale |-> toLowerCase(domainLocale.defaultLocale),
                hostname |-> split(domain, ":")[1],
                domain |-> domain,
                locales |-> IF domainLocale.locales = Undefined
                              THEN Undefined
                              ELSE Some([k \in 1..Len(domainLocale.locales[1]) |->
                                     toLowerCase(domainLocale.locales[1][k])])]])

\* ----------------------------------------------------- detectDomainLocale
\* domainLocale.locales?.some((locale) => locale === detectedLocale)
someLocale(locales, detectedLocale) ==
  /\ locales # Undefined
  /\ \E k \in 1..Len(locales[1]) : Some(locales[1][k]) = detectedLocale

\* Compares the entry's hostname, not its defaultLocale, with the hostname.
RECURSIVE scanDomains_byHostname(_, _, _)
scanDomains_byHostname(i, hostname, detectedLocale) ==
  IF ~(i < Len(lowerCaseDomains[1]))
    THEN Undefined
    ELSE LET domainLocale == lowerCaseDomains[1][i + 1]
         IN  IF \/ Some(domainLocale.hostname) = hostname
                \/ someLocale(domainLocale.locales, detectedLocale)
               THEN Some(config.domains[1][i + 1])
               ELSE scanDomains_byHostname(i + 1, hostname, detectedLocale)

\* The zero-based for loop, from index i on.
RECURSIVE scanDomains(_, _, _)
scanDomains(i, hostname, detectedLocale) ==
  IF ~(i < Len(lowerCaseDomains[1]))
    THEN Undefined
    ELSE LET domainLocale == lowerCaseDomains[1][i + 1]
         IN  IF \/ Some(domainLocale.defaultLocale) = hostname
                \/ someLocale(domainLocale.locales, detectedLocale)
               THEN Some(config.domains[1][i + 1])
               ELSE scanDomains(i + 1, hostname, detectedLocale)

detectDomainLocale(hostname, detectedLocale) ==
  IF Falsy(hostname) \/ lowerCaseDomains = Undefined \/ config.domains = Undefined
    THEN Undefined
    ELSE scanDomains(0, hostname,
           IF ~Falsy(detectedLocale)
             THEN Some(toLowerCase(detectedLocale[1]))
             ELSE detectedLocale)

\* ----------------------------------------------------- inferDefaultLocale
inferDefaultLocale(hostname) ==
  IF Falsy(hostname)
    THEN config.defaultLocale
    ELSE LET domainLocale == detectDomainLocale(hostname, Undefined)
         IN  IF domainLocale = Undefined
               THEN config.defaultLocale
               ELSE domainLocale[1].defaultLocale

\* ------------------------------------------------------------------ match
\* options is [hasHostname, hostname, defaultLocale]: hasHostname is
\* ('hostname' in options); hostname is read only when hasHostname.
seedLocale_preferDefault(options) ==
  IF options.hasHostname /\ options.defaultLocale = Undefined
    THEN Some(inferDefaultLocale(Some(options.hostname)))
    ELSE options.defaultLocale

seedLocale_globalDefault(options) ==
  IF options.hasHostname \/ options.defaultLocale = Undefined
    THEN Some(inferDefaultLocale(Some(options.hostname)))
    ELSE options.defaultLocale

seedLocale(options) ==
  IF options.hasHostname
    THEN Some(inferDefaultLocale(Some(options.hostname)))
    ELSE options.defaultLocale

\* Matches the locale as a prefix of the pathname instead of a whole segment.
stripLocale_prefix(seed, pathname) ==
  LET hits == {i \in 1..Len(lowerCaseLocales) :
                 /\ Len(pathname) >= Len(lowerCaseLocales[i]) + 1
                 /\ toLowerCase(SubSeq(pathname, 2, Len(lowerCaseLocales[i]) + 1))
                      = lowerCaseLocales[i]}
  IN  IF hits = {}
        THEN [detectedLocale |-> seed, pathname |-> pathname]
        ELSE
          LET index == CHOOSE i \in hits : \A j \in hits : i <= j
              detectedLocale == config.locales[index]
              rest == slice(pathname, Len(detectedLocale) + 1)
          IN  [detectedLocale |-> Some(detectedLocale),
               pathname |-> IF rest = << >> THEN <<"/">> ELSE rest]

\* Returns the case-folded locale instead of the configured one.
stripLocale_lowerCase(seed, pathname) ==
  IF Len(config.locales) = 0
    THEN [detectedLocale |-> seed, pathname |-> pathname]
    ELSE
      LET segments == split(pathname, "/")
      IN  IF Falsy(At(segments, 1))
            THEN [detectedLocale |-> seed, pathname |-> pathname]
            ELSE
              LET segment == toLowerCase(segments[2])
                  index == indexOf(lowerCaseLocales, segment)
              IN  IF index < 0
                    THEN [detectedLocale |-> seed, pathname |-> pathname]
                    ELSE
                      LET detectedLocale == lowerCaseLocales[index + 1]
                          rest == slice(pathname, Len(detectedLocale) + 1)
                      IN  [detectedLocale |-> Some(detectedLocale),
                           pathname |-> IF rest = << >> THEN <<"/">> ELSE rest]

\* Leaves the pathname empty when nothing follows the locale.
stripLocale_noSlash(seed, pathname) ==
  IF Len(config.locales) = 0
    THEN [detectedLocale |-> seed, pathname |-> pathname]
    ELSE
      LET segments == split(pathname, "/")
      IN  IF Falsy(At(segments, 1))
            THEN [detectedLocale |-> seed, pathname |-> pathname]
            ELSE
              LET segment == toLowerCase(segments[2])
                  index == indexOf(lowerCaseLocales, segment)
              IN  IF index < 0
                    THEN [detectedLocale |-> seed, pathname |-> pathname]
                    ELSE
                      LET detectedLocale == config.locales[index + 1]
                      IN  [detectedLocale |-> Some(detectedLocale),
                           pathname |-> slice(pathname, Len(detectedLocale) + 1)]

\* The part of match after the fallback has been seeded.
stripLocale(seed, pathname) ==
  IF Len(config.locales) = 0
    THEN [detectedLocale |-> seed, pathname |-> pathname]
    ELSE
      LET segments == split(pathname, "/")
      IN  IF Falsy(At(segments, 1))
            THEN [detectedLocale |-> seed, pathname |-> pathname]
            ELSE
              LET segment == toLowerCase(segments[2])
                  index == indexOf(lowerCaseLocales, segment)
              IN  IF index < 0
                    THEN [detectedLocale |-> seed, pathname |-> pathname]
                    ELSE
                      LET detectedLocale == config.locales[index + 1]
                          rest == slice(pathname, Len(detectedLocale) + 1)
                      IN  [detectedLocale |-> Some(detectedLocale),
                           pathname |-> IF rest = << >> THEN <<"/">> ELSE rest]

match(pathname, options) == stripLocale(seedLocale(options), pathname)

\* -------------------------------------------------------------- normalize
normalize(pathname) ==
  match(pathname,
        [hasHostname |-> FALSE, hostname |-> << >>,
         defaultLocale |-> Undefined]).pathname

\* ------------------------------------------------------------ input sets
PathChars == {"/", "a", "A", "b"}

\* Absolute pathnames up to MaxPathLen characters, and the empty pathname.
Pathnames ==
  {<< >>} \cup {<<"/">> \o s : s \in BoundedSeq(PathChars, MaxPathLen - 1)}

LocaleUniverse == {<<"A">>, <<"a", "b">>, <<"b">>}

\* Locale lists are unique under case-insensitive comparison.
LocaleLists ==
  {l \in BoundedSeq(LocaleUniverse, MaxLocales) :
     \A i, j \in 1..Len(l) : toLowerCase(l[i]) = toLowerCase(l[j]) => i = j}

DefaultLocales == {<<"a", "b">>, <<"b">>}

DomainEntries ==
  [domain : {<<"H">>, <<"b", ":", "8">>},
   defaultLocale : {<<"A">>, <<"b">>},
   locales : {Undefined, Some(<< <<"A">>, <<"b">> >>)}]

DomainLists == BoundedSeq(DomainEntries, MaxDomains)

\* Every locale list without domains; every domain list with one locale list.
Configs ==
  [locales : LocaleLists, defaultLocale : DefaultLocales, domains : {Undefined}]
    \cup
  [locales : {<< <<"A">>, <<"a", "b">> >>}, defaultLocale : DefaultLocales,
   domains : {Some(d) : d \in DomainLists}]

Hostnames == {<< >>, <<"h">>, <<"a">>, <<"b">>}

MatchOptions ==
  [hasHostname : {FALSE}, hostname : {<< >>},
   defaultLocale : {Undefined, Some(<<"A">>), Some(<<"b">>)}]
    \cup
  [hasHostname : {TRUE}, hostname : Hostnames,
   defaultLocale : {Undefined, Some(<<"b">>)}]

HostnameArgs == {Undefined} \cup {Some(h) : h \in Hostnames}

DetectedLocaleArgs ==
  {Undefined, Some(<< >>), Some(<<"A">>), Some(<<"a">>), Some(<<"b">>),
   Some(<<"a", "b">>)}

NoArgs == [pathname |-> << >>]

\* ------------------------------------------------------------ state machine
Init ==
  /\ config \in Configs
  /\ lowerCaseLocales = constructLowerCaseLocales(config)
  /\ lowerCaseDomains = constructLowerCaseDomains(config)
  /\ op = "idle"
  /\ args = NoArgs
  /\ returned = Undefined

Match ==
  /\ op = "idle"
  /\ \E pathname \in Pathnames, options \in MatchOptions :
       /\ op' = "match"
       /\ args' = [pathname |-> pathname, options |-> options]
       /\ returned' = match(pathname, options)
  /\ UNCHANGED <<config, lowerCaseLocales, lowerCaseDomains>>

Normalize ==
  /\ op = "idle"
  /\ \E pathname \in Pathnames :
       /\ op' = "normalize"
       /\ args' = [pathname |-> pathname, again |-> FALSE, previous |-> pathname]
       /\ returned' = normalize(pathname)
  /\ UNCHANGED <<config, lowerCaseLocales, lowerCaseDomains>>

\* The caller passes the pathname normalize returned to normalize again.
NormalizeAgain ==
  /\ op = "normalize"
  /\ op' = "normalize"
  /\ args' = [pathname |-> returned, again |-> TRUE, previous |-> args.pathname]
  /\ returned' = normalize(returned)
  /\ UNCHANGED <<config, lowerCaseLocales, lowerCaseDomains>>

DetectDomainLocale ==
  /\ op = "idle"
  /\ \E hostname \in HostnameArgs, detectedLocale \in DetectedLocaleArgs :
       /\ op' = "detectDomainLocale"
       /\ args' = [hostname |-> hostname, detectedLocale |-> detectedLocale]
       /\ returned' = detectDomainLocale(hostname, detectedLocale)
  /\ UNCHANGED <<config, lowerCaseLocales, lowerCaseDomains>>

\* The caller has taken the returned value; the instance is unchanged.
Return ==
  /\ op # "idle"
  /\ op' = "idle"
  /\ args' = NoArgs
  /\ returned' = Undefined
  /\ UNCHANGED <<config, lowerCaseLocales, lowerCaseDomains>>

Next ==
  \/ Match
  \/ Normalize
  \/ NormalizeAgain
  \/ DetectDomainLocale
  \/ Return

Spec == Init /\ [][Next]_vars

\* ------------------------------------------------- vocabulary of the claims
\* x and y are equal up to the case of their characters.
SameIgnoringCase(x, y) ==
  /\ Len(x) = Len(y)
  /\ \A j \in 1..Len(x) : LowerChar(x[j]) = LowerChar(y[j])

\* The text between the leading "/" and the next "/" (empty when absent).
FirstSegment(p) ==
  IF p = << >> \/ p[1] # "/"
    THEN << >>
    ELSE LET stops == {i \in 2..Len(p) : p[i] = "/"}
             stop == IF stops = {} THEN Len(p) + 1
                     ELSE CHOOSE i \in stops : \A j \in stops : i <= j
         IN  SubSeq(p, 2, stop - 1)

\* The configured locales the first segment equals case-insensitively.
SegmentLocales(p) ==
  {i \in 1..Len(config.locales) :
     FirstSegment(p) # << >> /\ SameIgnoringCase(FirstSegment(p), config.locales[i])}

FirstSegmentIsLocale(p) == SegmentLocales(p) # {}

\* p with its first segment removed, "/" when nothing remains.
WithoutFirstSegment(p) ==
  LET rest == SubSeq(p, Len(FirstSegment(p)) + 2, Len(p))
  IN  IF rest = << >> THEN <<"/">> ELSE rest

\* The domain entries detectDomainLocale(h) selects: case-folded
\* defaultLocale equal to the hostname h.
ResolvingDomains(h) ==
  IF config.domains = Undefined \/ h = << >>
    THEN {}
    ELSE {i \in 1..Len(config.domains[1]) :
            /\ Len(config.domains[1][i].defaultLocale) = Len(h)
            /\ \A j \in 1..Len(h) :
                 LowerChar(config.domains[1][i].defaultLocale[j]) = h[j]}

FirstOf(S) == CHOOSE i \in S : \A j \in S : i <= j

\* The fallback derived from hostname h.
HostnameDefault(h) ==
  IF ResolvingDomains(h) = {}
    THEN config.defaultLocale
    ELSE config.domains[1][FirstOf(ResolvingDomains(h))].defaultLocale

ExplicitUndefined ==
  /\ op = "match"
  /\ ~args.options.hasHostname
  /\ args.options.defaultLocale = Undefined

\* ------------------------------------------------------------------ claims

\* C1 (as stated): for every configured locale L, every re-casing L' of L and
\* ANY remainder rest, match("/" + L' + rest, {defaultLocale: undefined})
\* returns detectedLocale L and pathname rest (or "/" if rest is empty).
C1_RoundTripAnyRemainder ==
  ExplicitUndefined =>
    \A i \in 1..Len(config.locales) :
      LET L == config.locales[i]
          p == args.pathname
          rest == SubSeq(p, Len(L) + 2, Len(p))
      IN  (/\ Len(p) >= Len(L) + 1
           /\ p[1] = "/"
           /\ SameIgnoringCase(SubSeq(p, 2, Len(L) + 1), L))
          => /\ returned.detectedLocale = Some(L)
             /\ returned.pathname = IF rest = << >> THEN <<"/">> ELSE rest

\* C1 (amended): the round trip holds for every configured locale L, every
\* re-casing L' of L and every remainder rest that is empty or begins with
\* "/": detectedLocale is L in canonical case and pathname is rest (or "/").
C1_RoundTripCanonicalCase ==
  ExplicitUndefined =>
    \A i \in 1..Len(config.locales) :
      LET L == config.locales[i]
          p == args.pathname
          rest == SubSeq(p, Len(L) + 2, Len(p))
      IN  (/\ Len(p) >= Len(L) + 1
           /\ p[1] = "/"
           /\ SameIgnoringCase(SubSeq(p, 2, Len(L) + 1), L)
           /\ (rest = << >> \/ rest[1] = "/"))
          => /\ returned.detectedLocale = Some(L)
             /\ returned.pathname = IF rest = << >> THEN <<"/">> ELSE rest

\* A re-cased locale followed by a non-empty remainder has been matched.
C1_Witness ==
  /\ ExplicitUndefined
  /\ \E i \in 1..Len(config.locales) :
       LET L == config.locales[i]
           p == args.pathname
       IN  /\ Len(p) > Len(L) + 1
           /\ p[1] = "/"
           /\ SameIgnoringCase(SubSeq(p, 2, Len(L) + 1), L)
           /\ SubSeq(p, 2, Len(L) + 1) # L
           /\ p[Len(L) + 2] = "/"
           /\ returned.detectedLocale = Some(L)
           /\ returned.pathname = SubSeq(p, Len(L) + 2, Len(p))

\* C2: with domains configured, match(p, {hostname: h}) where h is the
\* lower-cased domain of a configured entry E and the first segment of p is
\* not a configured locale returns detectedLocale E.defaultLocale and
\* pathname p.
C2_DomainDefaultByHostname ==
  (/\ op = "match"
   /\ args.options.hasHostname
   /\ config.domains # Undefined
   /\ ~FirstSegmentIsLocale(args.pathname))
  => \A i \in 1..Len(config.domains[1]) :
       LET domainOf(k) == [j \in 1..Len(config.domains[1][k].domain) |->
                             LowerChar(config.domains[1][k].domain[j])]
       IN  (/\ domainOf(i) = args.options.hostname
            /\ \A k \in 1..Len(config.domains[1]) :
                 domainOf(k) = args.options.hostname => k = i)
           => /\ returned.detectedLocale = Some(config.domains[1][i].defaultLocale)
              /\ returned.pathname = args.pathname

C5_DefaultLocaleWhenHostnameFails ==
  (/\ op = "match"
   /\ args.options.hasHostname
   /\ args.options.defaultLocale # Undefined
   /\ ~FirstSegmentIsLocale(args.pathname)
   /\ ResolvingDomains(args.options.hostname) = {}
   /\ \/ lowerCaseDomains = Undefined
      \/ \A i \in 1..Len(lowerCaseDomains[1]) :
           /\ lowerCaseDomains[1][i].hostname # args.options.hostname
           /\ lowerCaseDomains[1][i].domain # args.options.hostname)
  => returned.detectedLocale = args.options.defaultLocale

\* C6: whenever the first segment equals a configured locale ignoring case,
\* match returns that locale in canonical case, whatever the options.
C6_PathSegmentPrecedence ==
  (op = "match" /\ FirstSegmentIsLocale(args.pathname))
  => \A i \in SegmentLocales(args.pathname) :
       returned.detectedLocale = Some(config.locales[i])

\* The path locale wins over a supplied d, a resolved domain default and the
\* global default, all of them different from it, and differs from its
\* case-folded form.
C6_Witness ==
  /\ op = "match"
  /\ args.options.hasHostname
  /\ args.options.defaultLocale # Undefined
  /\ ResolvingDomains(args.options.hostname) # {}
  /\ \E i \in SegmentLocales(args.pathname) :
       /\ returned.detectedLocale = Some(config.locales[i])
       /\ config.locales[i] # FirstSegment(args.pathname)
       /\ config.locales[i] # lowerCaseLocales[i]
  /\ returned.detectedLocale # args.options.defaultLocale
  /\ returned.detectedLocale # Some(HostnameDefault(args.options.hostname))
  /\ returned.detectedLocale # Some(config.defaultLocale)

\* C7: normalize(normalize(p)) = normalize(p) for every p such that the first
\* segment of normalize(p) is not a configured locale.
C7_NormalizeIdempotent ==
  (/\ op = "normalize"
   /\ args.again
   /\ ~FirstSegmentIsLocale(args.pathname))
  => returned = args.pathname

\* normalize stripped a locale from p and, applied again, changed nothing.
C7_Witness ==
  /\ op = "normalize"
  /\ args.again
  /\ args.previous # args.pathname
  /\ FirstSegment(args.pathname) # << >>
  /\ ~FirstSegmentIsLocale(args.pathname)
  /\ returned = args.pathname

\* C8: detectedLocale is never absent in the hostname variant; in the
\* explicit-default variant it is absent exactly when options.defaultLocale
\* is undefined and the first segment is not a configured locale.
C8_AbsentOnlyWithoutFallback ==
  op = "match" =>
    IF args.options.hasHostname
      THEN returned.detectedLocale # Undefined
      ELSE (returned.detectedLocale = Undefined)
             <=> (/\ args.options.defaultLocale = Undefined
                  /\ ~FirstSegmentIsLocale(args.pathname))

\* No fallback, locales configured, a non-empty first segment that is no
\* locale: nothing is detected.
C8_Witness ==
  /\ ExplicitUndefined
  /\ Len(config.locales) > 0
  /\ FirstSegment(args.pathname) # << >>
  /\ returned.detectedLocale = Undefined

\* C9: detectDomainLocale(hostname, detectedLocale) returns config.domains[i]
\* in original case for the first i whose case-folded defaultLocale equals
\* hostname or whose case-folded locales contain the case-folded
\* detectedLocale; undefined when hostname is missing or empty, no domains
\* are configured or no entry qualifies. Equality of the entry's hostname
\* with the argument does not qualify an entry.
C9_Qualifying ==
  IF Falsy(args.hostname) \/ config.domains = Undefined
    THEN {}
    ELSE {i \in 1..Len(config.domains[1]) :
            LET entry == config.domains[1][i]
            IN  \/ i \in ResolvingDomains(args.hostname[1])
                \/ /\ args.detectedLocale # Undefined
                   /\ entry.locales # Undefined
                   /\ \E k \in 1..Len(entry.locales[1]) :
                        SameIgnoringCase(entry.locales[1][k], args.detectedLocale[1])}

C10_StripsAtMostOnePrefix ==
  (op = "match" /\ args.pathname # << >> /\ args.pathname[1] = "/")
  => /\ returned.pathname # << >>
     /\ returned.pathname[1] = "/"
     /\ \/ returned.pathname = args.pathname
        \/ returned.pathname = WithoutFirstSegment(args.pathname)

\* A locale was stripped and a second locale segment is left in place.
C10_Witness ==
  /\ op = "match"
  /\ args.pathname # << >>
  /\ returned.pathname = WithoutFirstSegment(args.pathname)
  /\ returned.pathname # args.pathname
  /\ FirstSegmentIsLocale(returned.pathname)

====
